---- MODULE Spec2Model ----
(***************************************************************************)
(* Model of cisco-clerk (src/javascript/cisco-clerk/main.js): the record   *)
(* extractor parseFile, the inventory builder buildData and the 'build'    *)
(* IPC handler that writes the CSV.                                        *)
(*                                                                         *)
(* A transcript is a sequence of lines.  A line is the tuple of capture    *)
(* groups of the one pattern it matches: a prompt line ("<host>#show ver") *)
(* matches hostnameRegex, a "System Serial Number : <sn>" line matches     *)
(* serialNumberRegex, a "<model> <version> <image>" banner line matches    *)
(* modelSoftwareRegex.  Positions in the text are counted in lines, so a   *)
(* regex's lastIndex is the number of lines before the end of its last     *)
(* match.  Field values, records and the CSV text are strings.             *)
(***************************************************************************)
EXTENDS Integers, Sequences, FiniteSets, TLC

\* ------------------------------------------------------------ bounds
NumFiles == 2      \* file names that may appear in a directory
MaxLen == 5        \* lines of a transcript handed to the extractor alone
MaxEdits == 1      \* changes made to the directories between builds

\* ------------------------------------------------------------ patterns
hostnameRegex == "prompt"
serialNumberRegex == "serial"
modelSoftwareRegex == "banner"

PromptLine(h) == [kind |-> hostnameRegex, g1 |-> h, g2 |-> "", g3 |-> ""]
SerialLine(s) == [kind |-> serialNumberRegex, g1 |-> s, g2 |-> "", g3 |-> ""]
BannerLine(m, v, i) == [kind |-> modelSoftwareRegex, g1 |-> m, g2 |-> v, g3 |-> i]
\* RegExp.prototype.exec returning null
NoMatch == [kind |-> "null", g1 |-> "", g2 |-> "", g3 |-> ""]

Min(S) == CHOOSE x \in S : \A y \in S : x <= y

\* RegExp.prototype.exec of a global regex: the search starts at lastIndex;
\* a match leaves lastIndex at its end, a failure resets lastIndex to 0.
exec(regex, fileContent, lastIndex) ==
  LET starts == {p \in (lastIndex + 1)..Len(fileContent) : fileContent[p].kind = regex}
  IN IF starts = {}
       THEN [match |-> NoMatch, lastIndex |-> 0]
       ELSE [match |-> fileContent[Min(starts)], lastIndex |-> Min(starts)]

\* hostnameRegex has no g flag: exec always searches from 0 and keeps no position.
\* hostnameRegex.exec(fileContent)[1] throws a TypeError on null.
fetchHostname(fileContent) ==
  LET m == exec(hostnameRegex, fileContent, 0).match
  IN IF m = NoMatch
       THEN [threw |-> TRUE, value |-> ""]
       ELSE [threw |-> FALSE, value |-> m.g1]

RECURSIVE serialNumberLoop(_, _, _)
serialNumberLoop(fileContent, lastIndex, serialNumberArray) ==
  LET r == exec(serialNumberRegex, fileContent, lastIndex)
  IN IF r.match = NoMatch
       THEN [array |-> serialNumberArray, lastIndex |-> r.lastIndex]
       ELSE serialNumberLoop(fileContent, r.lastIndex, Append(serialNumberArray, r.match.g1))

\* an `if` in place of the `while`: only the first match is taken
fetchSerialNumbers_firstOnly(fileContent, lastIndex) ==
  LET r == exec(serialNumberRegex, fileContent, lastIndex)
  IN IF r.match = NoMatch
       THEN [array |-> <<>>, lastIndex |-> r.lastIndex]
       ELSE [array |-> <<r.match.g1>>, lastIndex |-> r.lastIndex]

fetchSerialNumbers(fileContent, lastIndex) ==
  serialNumberLoop(fileContent, lastIndex, <<>>)

RECURSIVE modelSoftwareLoop(_, _, _)
modelSoftwareLoop(fileContent, lastIndex, allModelSoftwareArray) ==
  LET r == exec(modelSoftwareRegex, fileContent, lastIndex)
  IN IF r.match = NoMatch
       THEN [array |-> allModelSoftwareArray, lastIndex |-> r.lastIndex]
       ELSE modelSoftwareLoop(fileContent, r.lastIndex,
              Append(allModelSoftwareArray, <<r.match.g1, r.match.g2, r.match.g3>>))

\* an `if` in place of the `while`: only the first triple is taken
fetchModelAndSoftware_firstOnly(fileContent, lastIndex) ==
  LET r == exec(modelSoftwareRegex, fileContent, lastIndex)
  IN IF r.match = NoMatch
       THEN [array |-> <<>>, lastIndex |-> r.lastIndex]
       ELSE [array |-> <<<<r.match.g1, r.match.g2, r.match.g3>>>>, lastIndex |-> r.lastIndex]

fetchModelAndSoftware(fileContent, lastIndex) ==
  modelSoftwareLoop(fileContent, lastIndex, <<>>)

\* Immutable.List.join(): the elements separated by ","
RECURSIVE join(_)
join(list) ==
  IF list = <<>> THEN ""
  ELSE IF Len(list) = 1 THEN list[1]
  ELSE list[1] \o "," \o join(Tail(list))

\* ------------------------------------------------------------ file system
testDataDir == "test_data"
Dirs == {"showfiles", testDataDir}
\* a path no directory exists at (also String(undefined))
NoSuchDir == "undefined"
OutputDirs == {"out", "readonly"}
Writable(outputDir) == outputDir = "out"

Stems == <<"a", "b", "c", "d">>
FileName(k) == Stems[k] \o ".txt"
Files == {FileName(k) : k \in 1..NumFiles}

\* the entries of testDataDir in place of the directory asked for
readdirSync_testDataDir(fs, dir) ==
  IF dir \notin DOMAIN fs
    THEN [threw |-> TRUE, files |-> <<>>]
    ELSE [threw |-> FALSE,
          files |-> [n \in 1..Len(fs[testDataDir]) |-> fs[testDataDir][n].name]]

\* fs.readdirSync: the entry names in the directory's own order; ENOENT when
\* there is no such directory
readdirSync(fs, dir) ==
  IF dir \notin DOMAIN fs
    THEN [threw |-> TRUE, files |-> <<>>]
    ELSE [threw |-> FALSE, files |-> [n \in 1..Len(fs[dir]) |-> fs[dir][n].name]]

\* fs.readFileSync(path.join(dir, fileName), 'utf8'): ENOENT when there is no such file
readFileSync(fs, dir, fileName) ==
  LET at == {n \in 1..Len(fs[dir]) : fs[dir][n].name = fileName}
  IN IF at = {}
       THEN [threw |-> TRUE, text |-> <<>>]
       ELSE [threw |-> FALSE, text |-> fs[dir][Min(at)].text]

\* ------------------------------------------------------------ parseFile
\* the while loop of parseFile, i counted from 0 as in the code;
\* modelAndSoftware[i][0] throws a TypeError when modelAndSoftware[i] is undefined
RECURSIVE deviceLoop(_, _, _, _, _)
deviceLoop(i, hostname, serialNumbers, modelAndSoftware, deviceList) ==
  IF ~(i < Len(serialNumbers))
    THEN [threw |-> FALSE, deviceList |-> deviceList]
    ELSE IF ~(i < Len(modelAndSoftware))
      THEN [threw |-> TRUE, deviceList |-> <<>>]
      ELSE deviceLoop(i + 1, hostname, serialNumbers, modelAndSoftware,
             Append(deviceList,
                    join(<<hostname,
                           serialNumbers[i + 1],
                           modelAndSoftware[i + 1][1],
                           modelAndSoftware[i + 1][2],
                           modelAndSoftware[i + 1][3]>>)))

\* the loop bounded by the triples: a serial that is not there joins as ""
RECURSIVE deviceLoop_overTriples(_, _, _, _, _)
deviceLoop_overTriples(i, hostname, serialNumbers, modelAndSoftware, deviceList) ==
  IF ~(i < Len(modelAndSoftware))
    THEN [threw |-> FALSE, deviceList |-> deviceList]
    ELSE deviceLoop_overTriples(i + 1, hostname, serialNumbers, modelAndSoftware,
           Append(deviceList,
                  join(<<hostname,
                         IF i < Len(serialNumbers) THEN serialNumbers[i + 1] ELSE "",
                         modelAndSoftware[i + 1][1],
                         modelAndSoftware[i + 1][2],
                         modelAndSoftware[i + 1][3]>>)))

buildDeviceList_overTriples(hostname, serialNumbers, modelAndSoftware) ==
  deviceLoop_overTriples(0, hostname, serialNumbers, modelAndSoftware, <<>>)

buildDeviceList(hostname, serialNumbers, modelAndSoftware) ==
  deviceLoop(0, hostname, serialNumbers, modelAndSoftware, <<>>)

\* parseFile(fileName) with the two global regexes' lastIndex passed in and out.
\* The file is read from testDataDir, whatever directory is being built.
parseFile(fs, fileName, sLastIndex, mLastIndex) ==
  LET read == readFileSync(fs, testDataDir, fileName)
      hostname == fetchHostname(read.text)
      serialNumbers == fetchSerialNumbers(read.text, sLastIndex)
      modelAndSoftware == fetchModelAndSoftware(read.text, mLastIndex)
      devices == buildDeviceList(hostname.value, serialNumbers.array, modelAndSoftware.array)
  IN IF read.threw
       THEN [error |-> "ENOENT", deviceList |-> <<>>, fileContent |-> <<>>,
             serialLastIndex |-> sLastIndex, modelLastIndex |-> mLastIndex]
     ELSE IF hostname.threw
       THEN [error |-> "TypeError", deviceList |-> <<>>, fileContent |-> read.text,
             serialLastIndex |-> sLastIndex, modelLastIndex |-> mLastIndex]
     ELSE [error |-> IF devices.threw THEN "TypeError" ELSE "",
           deviceList |-> devices.deviceList, fileContent |-> read.text,
           serialLastIndex |-> serialNumbers.lastIndex,
           modelLastIndex |-> modelAndSoftware.lastIndex]

\* ------------------------------------------------------------ buildData
Header == "Hostname,Serial Number,Model,Software Version,Software Image\n"

\* each device put in front of the output instead of after it
RECURSIVE appendDevices_prepend(_, _)
appendDevices_prepend(out, devices) ==
  IF devices = <<>> THEN out
  ELSE appendDevices_prepend(devices[1] \o "\n" \o out, Tail(devices))

\* parseFile(file).map(function(device) { output += device; output += "\n" })
RECURSIVE appendDevices(_, _)
appendDevices(out, devices) ==
  IF devices = <<>> THEN out
  ELSE appendDevices(out \o devices[1] \o "\n", Tail(devices))

\* ------------------------------------------------------------ state
VARIABLES
  dirs,             \* the file system: per directory its entries [name, text] in listing order
  serialLastIndex,  \* serialNumberRegex.lastIndex
  modelLastIndex,   \* modelSoftwareRegex.lastIndex
  pc,               \* where the 'build' handler (or the extractor's caller) stands
  showFilesDir,     \* the handler's argument
  files,            \* what readdirSync returned to buildData
  j,                \* how many elements of files the outer map has processed
  output,           \* buildData's output; after its return, the handler's result
  fileContent,      \* the text parseFile read last
  deviceList,       \* what parseFile returned last
  error,            \* the exception that ended the handler or the parseFile call
  csv,              \* content of the inventory file in the writable output directory
  sinceFail,        \* history: "failed" after a failed write, "rebuilt" once buildData ran again
  prev,             \* history: the last buildData call, its directory as listed and its outcome
  edits             \* history: changes made to the directories so far

vars == <<dirs, serialLastIndex, modelLastIndex, pc, showFilesDir, files, j, output,
          fileContent, deviceList, error, csv, sinceFail, prev, edits>>

locals == <<showFilesDir, files, j, output, fileContent, deviceList>>

ResetLocals ==
  /\ showFilesDir' = ""
  /\ files' = <<>>
  /\ j' = 0
  /\ output' = ""
  /\ fileContent' = <<>>
  /\ deviceList' = <<>>

\* ------------------------------------------------------------ transcripts
Units == <<"1", "2">>
Tag(dir) == IF dir = testDataDir THEN "T" ELSE "S"
HostOf(dir, k) == "sw-" \o Tag(dir) \o Stems[k]
SerialOf(dir, k, u) == "FOC" \o Tag(dir) \o Stems[k] \o Units[u]
BannerOf(dir, k, u) ==
  BannerLine("WS-C3750-" \o Tag(dir) \o Stems[k] \o Units[u], "12.2(55)SE", "c3750-ipbasek9-mz")

\* show version of the switch kept in file k of dir: file 1 is a stack of two
Recognized(dir, k) ==
  IF k = 1
    THEN <<PromptLine(HostOf(dir, k)), SerialLine(SerialOf(dir, k, 1)),
           BannerOf(dir, k, 1), BannerOf(dir, k, 2), SerialLine(SerialOf(dir, k, 2))>>
    ELSE <<PromptLine(HostOf(dir, k)), SerialLine(SerialOf(dir, k, 1)), BannerOf(dir, k, 1)>>

\* the same capture without its prompt line
Unrecognized(dir, k) == Tail(Recognized(dir, k))

Entries(dir) ==
  UNION {{[name |-> FileName(k), text |-> t] :
            t \in {Recognized(dir, k), Unrecognized(dir, k)}} : k \in 1..NumFiles}

\* every directory content: some of the files, in any listing order
Listings(dir) ==
  {l \in UNION {[1..n -> Entries(dir)] : n \in 0..NumFiles} :
     \A a, b \in 1..Len(l) : a # b => l[a].name # l[b].name}

\* ------------------------------------------------------------ the 'build' handler
Init ==
  /\ dirs \in [Dirs -> UNION {Listings(d) : d \in Dirs}]
  /\ \A d \in Dirs : dirs[d] \in Listings(d)
  /\ serialLastIndex = 0
  /\ modelLastIndex = 0
  /\ pc = "idle"
  /\ showFilesDir = ""
  /\ files = <<>>
  /\ j = 0
  /\ output = ""
  /\ fileContent = <<>>
  /\ deviceList = <<>>
  /\ error = ""
  /\ csv = ""
  /\ sinceFail = ""
  /\ prev = [dir |-> "", listing |-> <<>>, outcome |-> ""]
  /\ edits = 0

\* ipcMain.on('build'): buildData starts, reads the listing and sets the header
ipcBuild ==
  /\ pc = "idle"
  /\ \E dir \in Dirs \cup {NoSuchDir} :
       LET listing == readdirSync(dirs, dir)
       IN IF listing.threw
            THEN /\ pc' = "threw"
                 /\ error' = "ENOENT"
                 /\ prev' = [dir |-> dir, listing |-> <<>>, outcome |-> "throw ENOENT"]
                 /\ UNCHANGED locals
            ELSE /\ pc' = "build"
                 /\ UNCHANGED prev
                 /\ error' = ""
                 /\ showFilesDir' = dir
                 /\ files' = listing.files
                 /\ j' = 0
                 /\ output' = Header
                 /\ UNCHANGED <<fileContent, deviceList>>
  /\ sinceFail' = IF sinceFail = "failed" THEN "rebuilt" ELSE sinceFail
  /\ UNCHANGED <<dirs, serialLastIndex, modelLastIndex, csv, edits>>

\* one element of readdirSync(dirString).map: parseFile(file), then its devices
\* are appended; an exception of parseFile ends the handler
buildDataStep ==
  /\ pc = "build"
  /\ j < Len(files)
  /\ LET r == parseFile(dirs, files[j + 1], serialLastIndex, modelLastIndex)
     IN /\ serialLastIndex' = r.serialLastIndex
        /\ modelLastIndex' = r.modelLastIndex
        /\ fileContent' = r.fileContent
        /\ IF r.error # ""
             THEN /\ pc' = "threw"
                  /\ error' = r.error
                  /\ prev' = [dir |-> showFilesDir, listing |-> dirs[showFilesDir],
                              outcome |-> "throw " \o r.error]
                  /\ UNCHANGED <<showFilesDir, files, j, output, deviceList>>
             ELSE /\ deviceList' = r.deviceList
                  /\ output' = appendDevices(output, r.deviceList)
                  /\ j' = j + 1
                  /\ UNCHANGED <<pc, error, showFilesDir, files, prev>>
  /\ UNCHANGED <<dirs, csv, sinceFail, edits>>

\* return output; var result = buildData(showFilesDir)
buildDataReturn ==
  /\ pc = "build"
  /\ j = Len(files)
  /\ pc' = "write"
  /\ prev' = [dir |-> showFilesDir, listing |-> dirs[showFilesDir], outcome |-> output]
  /\ UNCHANGED <<dirs, serialLastIndex, modelLastIndex, locals, error, csv, sinceFail, edits>>

\* writeDataToCSV(result, outputDir, inventoryFilename): writeFileSync throws
\* when the output directory cannot be written
writeDataToCSV ==
  /\ pc = "write"
  /\ \E outputDir \in OutputDirs :
       IF Writable(outputDir)
         THEN /\ csv' = output
              /\ pc' = "idle"
              /\ sinceFail' = ""
              /\ ResetLocals
              /\ UNCHANGED error
         ELSE /\ pc' = "threw"
              /\ error' = "EACCES"
              /\ sinceFail' = "failed"
              /\ UNCHANGED <<csv, locals>>
  /\ UNCHANGED <<dirs, serialLastIndex, modelLastIndex, prev, edits>>

\* the exception leaves the handler: its locals are gone
unwind ==
  /\ pc = "threw"
  /\ pc' = "idle"
  /\ error' = ""
  /\ ResetLocals
  /\ UNCHANGED <<dirs, serialLastIndex, modelLastIndex, csv, sinceFail, prev, edits>>

Next ==
  \/ ipcBuild
  \/ buildDataStep
  \/ buildDataReturn
  \/ writeDataToCSV
  \/ unwind

Spec == Init /\ [][Next]_vars

\* ------------------------------------------------------------ the operator's files
\* between two builds somebody adds, removes, rewrites or reorders the files of
\* one directory
editFiles ==
  /\ pc = "idle"
  /\ edits < MaxEdits
  /\ \E d \in Dirs : \E l \in Listings(d) :
       /\ l # dirs[d]
       /\ dirs' = [dirs EXCEPT ![d] = l]
  /\ edits' = edits + 1
  /\ UNCHANGED <<serialLastIndex, modelLastIndex, pc, locals, error, csv, sinceFail, prev>>

NextEnv ==
  \/ ipcBuild
  \/ buildDataStep
  \/ buildDataReturn
  \/ writeDataToCSV
  \/ unwind
  \/ editFiles

SpecEnv == Init /\ [][NextEnv]_vars

\* ------------------------------------------------------------ the extractor alone
\* lines a transcript is made of
Lines ==
  {PromptLine("switch1"), PromptLine("switch2"),
   SerialLine("FOC1234X5YZ"), SerialLine("FOC5678A1BC"),
   BannerLine("WS-C3850-24T", "16.03.04", "universalk9-npe-abc"),
   BannerLine("WS-C2960-48TT", "12.2(55)SE", "c2960-lanbasek9-mz")}

Transcripts == UNION {[1..n -> Lines] : n \in 0..MaxLen}

OneFile(text) ==
  [d \in Dirs |-> IF d = testDataDir THEN <<[name |-> FileName(1), text |-> text]>> ELSE <<>>]

\* the transcript the extractor is given
Input == dirs[testDataDir][1].text

InitExtract ==
  /\ \E text \in Transcripts : dirs = OneFile(text)
  /\ serialLastIndex = 0
  /\ modelLastIndex = 0
  /\ pc = "ready"
  /\ showFilesDir = ""
  /\ files = <<>>
  /\ j = 0
  /\ output = ""
  /\ fileContent = <<>>
  /\ deviceList = <<>>
  /\ error = ""
  /\ csv = ""
  /\ sinceFail = ""
  /\ prev = [dir |-> "", listing |-> <<>>, outcome |-> ""]
  /\ edits = 0

\* one call parseFile(fileName); the regexes keep the lastIndex it leaves
parseFileCall ==
  /\ pc = "ready"
  /\ LET r == parseFile(dirs, FileName(1), serialLastIndex, modelLastIndex)
     IN /\ serialLastIndex' = r.serialLastIndex
        /\ modelLastIndex' = r.modelLastIndex
        /\ fileContent' = r.fileContent
        /\ deviceList' = r.deviceList
        /\ error' = r.error
  /\ pc' = "done"
  /\ UNCHANGED <<dirs, showFilesDir, files, j, output, csv, sinceFail, prev, edits>>

\* the next transcript to parse: the file gains a line or loses its first one;
\* the result of the call before stays in deviceList and error
nextTranscript ==
  /\ pc = "done"
  /\ \/ /\ Len(Input) < MaxLen
        /\ \E line \in Lines : dirs' = OneFile(Append(Input, line))
     \/ /\ Input # <<>>
        /\ dirs' = OneFile(Tail(Input))
  /\ pc' = "ready"
  /\ UNCHANGED <<serialLastIndex, modelLastIndex, showFilesDir, files, j, output,
                 fileContent, deviceList, error, csv, sinceFail, prev, edits>>

NextExtract ==
  \/ parseFileCall
  \/ nextTranscript

SpecExtract == InitExtract /\ [][NextExtract]_vars

\* ------------------------------------------------------------ what the claims speak of
\* the matches of a pattern in a text, in text order
MatchesOf(regex, text) == SelectSeq(text, LAMBDA line : line.kind = regex)

HostnameMatches == MatchesOf(hostnameRegex, Input)
SerialMatches == MatchesOf(serialNumberRegex, Input)
TripleMatches == MatchesOf(modelSoftwareRegex, Input)

\* the record of unit i: first hostname, i-th serial, i-th triple
RecordOf(i) ==
  HostnameMatches[1].g1 \o "," \o SerialMatches[i].g1 \o "," \o TripleMatches[i].g1
    \o "," \o TripleMatches[i].g2 \o "," \o TripleMatches[i].g3

\* parseFile returned normally with exactly the records of units 1..n
ReturnedRecords(n) ==
  /\ error = ""
  /\ Len(deviceList) = n
  /\ \A i \in 1..n : deviceList[i] = RecordOf(i)

\* C1: a transcript with a hostname match, N >= 1 serial matches and exactly N
\* triples gives exactly N records, the i-th made of the hostname, the i-th serial
\* and the i-th triple in text order.
C1_PairedRecords ==
  (/\ pc = "done"
   /\ HostnameMatches # <<>>
   /\ Len(SerialMatches) >= 1
   /\ Len(TripleMatches) = Len(SerialMatches))
  => ReturnedRecords(Len(SerialMatches))

C1_Witness ==
  /\ pc = "done"
  /\ HostnameMatches # <<>>
  /\ Len(SerialMatches) = 2
  /\ Len(TripleMatches) = 2
  /\ SerialMatches[1] # SerialMatches[2]
  /\ TripleMatches[1] # TripleMatches[2]
  /\ Len(deviceList) = 2

\* C2: a transcript with a hostname match, N serial matches and K < N triples
\* makes parseFile return normally with exactly the K records of indices 0..K-1.
C2_UnpairedSkipped ==
  (/\ pc = "done"
   /\ HostnameMatches # <<>>
   /\ Len(TripleMatches) < Len(SerialMatches))
  => ReturnedRecords(Len(TripleMatches))

\* C4: a transcript with a hostname match, N serial matches and K > N triples
\* gives exactly N records, serial i paired with triple i; the triples beyond
\* the N-th are in no record.
C4_ExtraTriplesIgnored ==
  (/\ pc = "done"
   /\ HostnameMatches # <<>>
   /\ Len(TripleMatches) > Len(SerialMatches))
  => ReturnedRecords(Len(SerialMatches))

C4_Witness ==
  /\ pc = "done"
  /\ HostnameMatches # <<>>
  /\ Len(SerialMatches) = 1
  /\ Len(TripleMatches) = 2
  /\ TripleMatches[1] # TripleMatches[2]
  /\ Len(deviceList) = 1

\* C8: both global regexes stand at lastIndex 0 whenever parseFile starts, after
\* any earlier calls, those that threw included; so what a call returns is what a
\* call with fresh regexes returns.
C8_ScanPositionsReset ==
  /\ serialLastIndex = 0
  /\ modelLastIndex = 0
  /\ pc = "done" =>
       LET fresh == parseFile(dirs, FileName(1), 0, 0)
       IN deviceList = fresh.deviceList /\ error = fresh.error

\* parseFile is about to start after a call that threw once both scans had run
C8_Witness ==
  /\ pc = "ready"
  /\ error = "TypeError"
  /\ MatchesOf(hostnameRegex, fileContent) # <<>>
  /\ Len(MatchesOf(serialNumberRegex, fileContent)) = 2
  /\ Len(SerialMatches) >= 1
  /\ Len(TripleMatches) >= 1

\* ------------------------------------------------------------ claims on the build
\* the rows one file contributes: its records as parseFile extracts them, each
\* followed by a newline
RECURSIVE Rows(_)
Rows(records) ==
  IF records = <<>> THEN "" ELSE records[1] \o "\n" \o Rows(Tail(records))

RecordsOfFile(fileName) == parseFile(dirs, fileName, 0, 0).deviceList

\* the rows of the first n listed files, file after file
RECURSIVE RowsOfFirst(_)
RowsOfFirst(n) ==
  IF n = 0 THEN "" ELSE RowsOfFirst(n - 1) \o Rows(RecordsOfFile(files[n]))

\* C3: a transcript with no hostname match contributes no record and does not
\* abort buildData: the build goes on to the next listed file with its output
\* as it was.
C3_UnrecognizedDoesNotAbort ==
  [][(/\ pc = "build"
      /\ j < Len(files)
      /\ ~readFileSync(dirs, testDataDir, files[j + 1]).threw
      /\ fetchHostname(readFileSync(dirs, testDataDir, files[j + 1]).text).threw)
     => (pc' = "build" /\ j' = j + 1 /\ output' = output)]_vars

\* C5: at every point of a build the output is the header followed by the
\* records of the files processed so far, in the order of the directory listing,
\* the records of one file in the order of its serial matches.
C5_ListingOrder ==
  pc \in {"build", "write"} =>
    /\ files = [n \in 1..Len(dirs[showFilesDir]) |-> dirs[showFilesDir][n].name]
    /\ j <= Len(files)
    /\ output = Header \o RowsOfFirst(j)

\* the stack of file 1 was listed and processed after file 2
C5_Witness ==
  /\ pc = "write"
  /\ files = <<FileName(2), FileName(1)>>
  /\ Len(RecordsOfFile(FileName(2))) = 1
  /\ Len(deviceList) = 2
  /\ deviceList[1] # deviceList[2]

\* C6: the text parseFile extracts from is the content of the listed file in
\* the directory the build was given.
C6_ReadsFromInputDir ==
  (pc = "build" /\ j >= 1) =>
    fileContent = readFileSync(dirs, showFilesDir, files[j]).text

\* C7: two buildData calls over the same directory, unchanged between them (same
\* listing, same file contents), end the same way: the same output, or the same
\* error.
C7_Idempotent ==
  [][(/\ pc = "build"
      /\ pc' # "build"
      /\ prev.dir = showFilesDir
      /\ prev.listing = dirs[showFilesDir])
     => prev'.outcome = prev.outcome]_vars

\* C9: after a failed write the Inventory is kept: the write that follows the
\* failure is made without buildData having run again.
C9_RetryWithoutRebuild ==
  ~(pc = "write" /\ sinceFail = "rebuilt")

\* C10: buildData over an existing directory with no files returns the header
\* alone, raises nothing and never calls parseFile.
C10_EmptyDirectory ==
  (showFilesDir \in Dirs /\ dirs[showFilesDir] = <<>>) =>
    /\ pc \in {"build", "write"} =>
         /\ output = Header
         /\ j = 0
         /\ fileContent = <<>>
         /\ deviceList = <<>>
    /\ pc = "threw" => error = "EACCES"

\* buildData returned for an empty directory while testDataDir holds files
C10_Witness ==
  /\ pc = "write"
  /\ showFilesDir # testDataDir
  /\ dirs[showFilesDir] = <<>>
  /\ dirs[testDataDir] # <<>>
  /\ output = Header

====
